---------------------------- MODULE Spec2Model ----------------------------
(***************************************************************************)
(* AshPaper: the line classifier (ashpaper/src/parser.rs), the two         *)
(* interpreters (Program::execute in src/program.rs, execute in            *)
(* ashpaper/src/program.rs), the JIT (src/jit.rs) and the three binaries   *)
(* as one state machine.                                                   *)
(*                                                                         *)
(* Text is a TLA+ string; the character at position i of s is              *)
(* SubSeq(s, i, i).  An i64 is the tuple of its eight bytes, least         *)
(* significant first (two's complement), so that arithmetic keeps its      *)
(* 64-bit width.  The output String is the sequence of its code points.    *)
(***************************************************************************)
EXTENDS Integers, Sequences, FiniteSets, TLC

VARIABLES
    implementation,      \* "plus": Program::execute, "legacy": ashpaper::program::execute,
                         \* "jit": Program::jit_execute
    overflow_checks,     \* the build profile: TRUE in a debug build, FALSE in a release build
    pc,                  \* "create", "execute", "returned", "panicked"; more for the JIT
    source,              \* <<text>> for a program given as text, << >> for a literal ast
    ast,                 \* the Vec<Instruction> (Program.ast, `instructions`)
    mem,                 \* Memory {register0, register1, stack}
    instruction_pointer,
    output,
    command,             \* the command line of a binary, or "library" for a call of the library
    stdout,              \* the code points the process has written to standard output
    exit_status          \* "running", then "0", "101" (a panic) or "signal"

vars == <<implementation, overflow_checks, pc, source, ast, mem,
          instruction_pointer, output, command, stdout, exit_status>>

-----------------------------------------------------------------------------
(* i64: eight bytes, least significant first.  The operations on i64 and   *)
(* on text that recur are functions, so that an argument is evaluated once *)
(* where it is applied.                                                    *)

I64_BYTES == 8

BYTE == 256

Limbs == 1..I64_BYTES

I64 == [Limbs -> 0..(BYTE - 1)]

ByteOf[n \in Nat, i \in Limbs] ==
    IF i = 1 THEN n % BYTE ELSE ByteOf[n \div BYTE, i - 1]

\* `n as i64` for a usize n small enough to be a TLC integer
as_i64(n) == [i \in Limbs |-> ByteOf[n, i]]

I64_ZERO == [i \in Limbs |-> 0]

I64_MIN == [i \in Limbs |-> IF i = I64_BYTES THEN 128 ELSE 0]

is_negative(a) == a[I64_BYTES] >= 128

\* a + b modulo 2^64 (the carry out of the top byte is dropped)
CarryInto[a \in I64, b \in I64, c0 \in 0..1, i \in Limbs] ==
    IF i = 1 THEN c0
    ELSE (a[i - 1] + b[i - 1] + CarryInto[a, b, c0, i - 1]) \div BYTE

AddWithCarry[a \in I64, b \in I64, c0 \in 0..1] ==
    [i \in Limbs |-> (a[i] + b[i] + CarryInto[a, b, c0, i]) % BYTE]

wrapping_add(a, b) == AddWithCarry[a, b, 0]

\* -a modulo 2^64: complement and add one; -I64_MIN is I64_MIN
wrapping_neg(a) == AddWithCarry[[i \in Limbs |-> 255 - a[i]], I64_ZERO, 1]

\* the bit pattern of |a|; for I64_MIN it is I64_MIN again (2^63 when read unsigned)
wrapping_abs(a) == IF is_negative(a) THEN wrapping_neg(a) ELSE a

\* unsigned a < b, decided at the most significant byte where they differ
ULessFrom[a \in I64, b \in I64, i \in 0..I64_BYTES] ==
    IF i = 0 THEN FALSE
    ELSE IF a[i] # b[i] THEN a[i] < b[i]
    ELSE ULessFrom[a, b, i - 1]

\* signed a < b
lt(a, b) ==
    IF is_negative(a) # is_negative(b) THEN is_negative(a)
    ELSE ULessFrom[a, b, I64_BYTES]

gt(a, b) == lt(b, a)

\* column k of the long multiplication of a by b: the sum of a[i] * b[k + 1 - i]
ColumnSum[a \in I64, b \in I64, k \in Nat, i \in Nat] ==
    IF i = 0 THEN 0
    ELSE (IF i <= I64_BYTES /\ k + 1 - i >= 1 /\ k + 1 - i <= I64_BYTES
          THEN a[i] * b[k + 1 - i] ELSE 0) + ColumnSum[a, b, k, i - 1]

\* bytes k.. of the product, given the carry into column k
MulColumns[a \in I64, b \in I64, k \in Nat, carry \in Nat] ==
    IF k > 2 * I64_BYTES THEN << >>
    ELSE LET t == ColumnSum[a, b, k, k] + carry
         IN  <<t % BYTE>> \o MulColumns[a, b, k + 1, t \div BYTE]

WIDE == [1..(2 * I64_BYTES) -> 0..(BYTE - 1)]

\* the product of the unsigned readings of a and b: sixteen bytes
wide_mul[a \in I64, b \in I64] == MulColumns[a, b, 1, 0]

\* a * b modulo 2^64: the low eight bytes of the product
wrapping_mul(a, b) == [k \in Limbs |-> wide_mul[a, b][k]]

\* signed overflow of a + b: the operands agree in sign and the sum does not
add_overflows(a, b) ==
    /\ is_negative(a) = is_negative(b)
    /\ is_negative(wrapping_add(a, b)) # is_negative(a)

neg_overflows(a) == a = I64_MIN

\* signed overflow of a * b: the product of the magnitudes exceeds 2^63 - 1
\* (2^63 when the result is negative)
mul_overflows_wide[m \in WIDE, negative \in BOOLEAN] ==
    \/ \E k \in (I64_BYTES + 1)..(2 * I64_BYTES) : m[k] # 0
    \/ /\ m[I64_BYTES] >= 128
       /\ ~(negative /\ [k \in Limbs |-> m[k]] = I64_MIN)

mul_overflows(a, b) ==
    mul_overflows_wide[wide_mul[wrapping_abs(a), wrapping_abs(b)],
                       is_negative(a) # is_negative(b)]

\* (a as usize) % n on a 64-bit target: the unsigned reading of a, modulo n
URemFrom[a \in I64, n \in Nat, i \in 1..(I64_BYTES + 1)] ==
    IF i > I64_BYTES THEN 0
    ELSE (URemFrom[a, n, i + 1] * BYTE + a[i]) % n

as_usize_rem(a, n) == URemFrom[a, n, 1]

\* the unsigned reading of a divided by ten
UDiv10[a \in I64] ==
    [i \in Limbs |-> (URemFrom[a, 10, i + 1] * BYTE + a[i]) \div 10]

\* the decimal digits of the unsigned reading of a, as code points
UDecimal[a \in I64] ==
    IF a = I64_ZERO THEN << >>
    ELSE UDecimal[UDiv10[a]] \o <<48 + URemFrom[a, 10, 1]>>

\* format!("{}", a) for an i64
display_i64(a) ==
    IF a = I64_ZERO THEN <<48>>
    ELSE IF is_negative(a) THEN <<45>> \o UDecimal[wrapping_neg(a)]
    ELSE UDecimal[a]

-----------------------------------------------------------------------------
(* Text.                                                                   *)

At(s, i) == SubSeq(s, i, i)

UPPERCASE == "ABCDEFGHIJKLMNOPQRSTUVWXYZ"

LOWERCASE == "abcdefghijklmnopqrstuvwxyz"

DIGITS == "0123456789"

chars(s) == {At(s, i) : i \in 1..Len(s)}

UPPERCASE_CHARS == chars(UPPERCASE)

WORD_CHARS == chars(UPPERCASE) \cup chars(LOWERCASE) \cup chars(DIGITS) \cup {"_"}

\* [A-Z]
is_ascii_uppercase(c) == c \in UPPERCASE_CHARS

\* char::is_whitespace and the regex class \s
is_whitespace(c) == c \in {" ", "\t", "\n", "\r", "\f"}

\* the regex class \w
is_word_char(c) == c \in WORD_CHARS

\* the regex assertion \b between positions i and i + 1 of s (i in 0..Len(s))
word_boundary(s, i) ==
    (i >= 1 /\ is_word_char(At(s, i))) # (i < Len(s) /\ is_word_char(At(s, i + 1)))

char_to_lowercase(c) ==
    IF is_ascii_uppercase(c)
    THEN At(LOWERCASE, CHOOSE i \in 1..Len(UPPERCASE) : At(UPPERCASE, i) = c)
    ELSE c

\* str::to_lowercase
to_lowercase_from[s \in STRING, i \in Nat] ==
    IF i > Len(s) THEN ""
    ELSE char_to_lowercase(At(s, i)) \o to_lowercase_from[s, i + 1]

to_lowercase(s) == to_lowercase_from[s, 1]

\* str::contains(char)
contains(s, c) == \E i \in 1..Len(s) : At(s, i) = c

\* the first position at or after i that holds the character c, or 0
find_from[s \in STRING, i \in Nat, c \in STRING] ==
    IF i > Len(s) THEN 0
    ELSE IF At(s, i) = c THEN i
    ELSE find_from[s, i + 1, c]

\* str::trim().is_empty()
trim_is_empty(s) == \A i \in 1..Len(s) : is_whitespace(At(s, i))

\* str::trim_end
trim_end(s) ==
    IF trim_is_empty(s) THEN ""
    ELSE SubSeq(s, 1, CHOOSE j \in 1..Len(s) :
                        /\ ~is_whitespace(At(s, j))
                        /\ \A k \in (j + 1)..Len(s) : is_whitespace(At(s, k)))

\* str::lines: each line ends at a "\n", which is dropped together with a "\r"
\* before it; what follows the last "\n" is a line only when it is not empty
lines_from[s \in STRING, i \in Nat] ==
    IF i > Len(s) THEN << >>
    ELSE LET j == find_from[s, i, "\n"]
         IN  IF j = 0 THEN <<SubSeq(s, i, Len(s))>>
             ELSE <<IF j > i /\ At(s, j - 1) = "\r"
                    THEN SubSeq(s, i, j - 2) ELSE SubSeq(s, i, j - 1)>>
                  \o lines_from[s, j + 1]

\* str::split('\n') in the place of str::lines: what follows the last "\n" is a
\* piece even when it is empty, and a "\r" stays (C10 tells the two apart)
split_from[s \in STRING, i \in Nat] ==
    LET j == find_from[s, i, "\n"]
    IN  IF j = 0 THEN <<SubSeq(s, i, Len(s))>>
        ELSE <<SubSeq(s, i, j - 1)>> \o split_from[s, j + 1]

split_newline(s) == split_from[s, 1]

lines(s) == lines_from[s, 1]

\* s.split(' ').filter(|w| !w.is_empty())
words_from[s \in STRING, i \in Nat] ==
    IF i > Len(s) THEN << >>
    ELSE IF At(s, i) = " " THEN words_from[s, i + 1]
    ELSE LET j == find_from[s, i, " "]
             e == IF j = 0 THEN Len(s) + 1 ELSE j
         IN  <<SubSeq(s, i, e - 1)>> \o words_from[s, e]

words(s) == words_from[s, 1]

-----------------------------------------------------------------------------
(* The pronunciation dictionary.  CMUDICT is loaded from res/cmudict.dict, *)
(* which is data outside the program; here it holds the words the          *)
(* repository's test poems look up.  An entry gives the largest syllable   *)
(* count among the word's pronunciations and the rhyming parts (from the   *)
(* last stressed vowel on) of its pronunciations.                          *)

CMUDICT ==
    { <<"a", 1, {"AH", "EY"}>>,       <<"a.", 1, {"EY"}>>,
      <<"and", 1, {"AE N D"}>>,       <<"as", 1, {"AE Z"}>>,
      <<"blue", 1, {"UW"}>>,          <<"calculator", 4, {"AE L K Y AH L EY T ER"}>>,
      <<"counts", 1, {"AW N T S"}>>,  <<"do", 1, {"UW"}>>,
      <<"elf", 1, {"EH L F"}>>,       <<"finds", 1, {"AY N D Z"}>>,
      <<"fish", 1, {"IH SH"}>>,       <<"he", 1, {"IY"}>>,
      <<"it", 1, {"IH T"}>>,          <<"lovely", 2, {"AH V L IY"}>>,
      <<"me", 1, {"IY"}>>,            <<"new", 1, {"UW", "Y UW"}>>,
      <<"nothing", 2, {"AH TH IH NG"}>>, <<"once", 1, {"AH N S"}>>,
      <<"or", 1, {"AO R"}>>,          <<"poem", 2, {"OW AH M"}>>,
      <<"shelf", 1, {"EH L F"}>>,     <<"some", 1, {"AH M"}>>,
      <<"somebody", 3, {"AH M B AA D IY"}>>, <<"stabbed", 1, {"AE B D"}>>,
      <<"syllables", 3, {"IH L AH B AH L Z"}>>, <<"then", 1, {"EH N"}>>,
      <<"this", 1, {"IH S"}>>,        <<"told", 1, {"OW L D"}>>,
      <<"took", 1, {"UH K"}>>,        <<"turing", 2, {"UH R IH NG"}>>,
      <<"with", 1, {"IH DH", "IH TH"}>>, <<"would", 1, {"UH D"}>>,
      <<"writ", 1, {"IH T"}>>,        <<"you", 1, {"UW"}>> }

\* CMUDICT.get(word): << >> is None, <<rules>> is Some(rules)
CMUDICT_get[word \in STRING] ==
    IF \E e \in CMUDICT : e[1] = word
    THEN <<CHOOSE e \in CMUDICT : e[1] = word>>
    ELSE << >>

\* cmudict::rhymes
rhymes(rules_a, rules_b) == rules_a[3] \cap rules_b[3] # {}

-----------------------------------------------------------------------------
(* ashpaper/src/parser.rs                                                  *)

Register0 == "Register0"

Register1 == "Register1"

InsType(kind, syllables, prev_syllables, cur_syllables) ==
    [kind |-> kind, syllables |-> syllables,
     prev_syllables |-> prev_syllables, cur_syllables |-> cur_syllables]

\* the two counts in each other's field (C27 depends on which line's count
\* goes where)
ConditionalPush_swapped(prev_syllables, cur_syllables) ==
    InsType("ConditionalPush", 0, cur_syllables, prev_syllables)

ConditionalPush(prev_syllables, cur_syllables) ==
    InsType("ConditionalPush", 0, prev_syllables, cur_syllables)

ConditionalGoto(syllables) == InsType("ConditionalGoto", syllables, 0, 0)

Negate == InsType("Negate", 0, 0, 0)

Multiply == InsType("Multiply", 0, 0, 0)

Add == InsType("Add", 0, 0, 0)

PrintChar == InsType("PrintChar", 0, 0, 0)

PrintValue == InsType("PrintValue", 0, 0, 0)

Pop == InsType("Pop", 0, 0, 0)

Push == InsType("Push", 0, 0, 0)

Goto == InsType("Goto", 0, 0, 0)

Store(syllables) == InsType("Store", syllables, 0, 0)

Noop == InsType("Noop", 0, 0, 0)

Instruction(instruction, register, line) ==
    [instruction |-> instruction, register |-> register, line |-> line]

\* INT_CAP_RE, \b\S+[A-Z]\S+\b: a run of non-whitespace from a to b, between
\* two word boundaries, with a capital strictly inside it
INT_CAP_RE_is_match(line) ==
    \E m \in 2..(Len(line) - 1) :
        /\ is_ascii_uppercase(At(line, m))
        /\ \E a \in 1..(m - 1) :
              /\ word_boundary(line, a - 1)
              /\ \A k \in a..m : ~is_whitespace(At(line, k))
        /\ \E b \in (m + 1)..Len(line) :
              /\ word_boundary(line, b)
              /\ \A k \in m..b : ~is_whitespace(At(line, k))

\* CAP_RE, \b[A-Z][^A-Z]+\b: a capital after a word boundary, then one or
\* more characters that are not capitals, up to a word boundary
CAP_RE_is_match(line) ==
    \E p \in 1..Len(line) :
        /\ is_ascii_uppercase(At(line, p))
        /\ word_boundary(line, p - 1)
        /\ \E q \in (p + 1)..Len(line) :
              /\ word_boundary(line, q)
              /\ \A k \in (p + 1)..q : ~is_ascii_uppercase(At(line, k))

\* SIMILIE_RE, \b(like|as)\b
SIMILIE_RE_is_match(line) ==
    \E p \in 1..Len(line) : \E w \in {"like", "as"} :
        /\ p + Len(w) - 1 <= Len(line)
        /\ SubSeq(line, p, p + Len(w) - 1) = w
        /\ word_boundary(line, p - 1)
        /\ word_boundary(line, p + Len(w) - 1)

\* WS_START_RE, ^\s
WS_START_RE_is_match(line) == Len(line) > 0 /\ is_whitespace(At(line, 1))

is_vowel(c) == c \in {"a", "e", "i", "o", "u", "y"}

\* the first position at or after i whose character is a vowel (or, with
\* vowel FALSE, is not one), or 0
find_vowel_from[word \in STRING, i \in Nat, vowel \in BOOLEAN] ==
    IF i > Len(word) THEN 0
    ELSE IF is_vowel(At(word, i)) = vowel THEN i
    ELSE find_vowel_from[word, i + 1, vowel]

\* VOWEL_CLUSTER_RE.split(word): the pieces of word between the maximal runs
\* of [^aeiouy]; a run at either end leaves an empty piece there
VOWEL_CLUSTER_RE_split_from[word \in STRING, i \in Nat] ==
    LET j == find_vowel_from[word, i, FALSE]
    IN  IF j = 0 THEN <<SubSeq(word, i, Len(word))>>
        ELSE LET k == find_vowel_from[word, j, TRUE]
             IN  <<SubSeq(word, i, j - 1)>>
                 \o VOWEL_CLUSTER_RE_split_from[
                        word, IF k = 0 THEN Len(word) + 1 ELSE k]

DIPHTHONGS ==
    {"ai", "au", "ay", "ea", "ee", "ei", "ey", "oa", "oe", "oi", "oo", "ou",
     "oy", "ua", "ue", "ui"}

min(a, b) == IF a <= b THEN a ELSE b

sum[counts \in Seq(Nat)] ==
    IF counts = << >> THEN 0 ELSE Head(counts) + sum[Tail(counts)]

cluster_syllables[clusters \in Seq(STRING)] ==
    sum[[c \in 1..Len(clusters) |->
            IF clusters[c] \in DIPHTHONGS THEN 1 ELSE min(2, Len(clusters[c]))]]

\* one syllable for every vowel cluster, whatever its length (C24 depends on
\* the two syllables of a longer cluster that is no diphthong)
approximate_syllables_one_per_cluster(word) ==
    LET clusters == VOWEL_CLUSTER_RE_split_from[word, 1]
    IN  Cardinality({c \in 1..Len(clusters) : clusters[c] # ""})

approximate_syllables(word) == cluster_syllables[VOWEL_CLUSTER_RE_split_from[word, 1]]

count_word_syllables[word \in STRING] ==
    LET rules == CMUDICT_get[word]
    IN  IF rules # << >> THEN rules[1][2] ELSE approximate_syllables(word)

words_syllables[ws \in Seq(STRING)] ==
    sum[[w \in 1..Len(ws) |-> count_word_syllables[to_lowercase(ws[w])]]]

count_syllables(input) == words_syllables[words(input)]

adjacent_alliteration[ws \in Seq(STRING)] ==
    \E w \in 1..(Len(ws) - 1) : Head(ws[w + 1]) = Head(ws[w])

\* any two words with the same first letter, adjacent or not (C25 depends on
\* the comparison of neighbours only)
has_alliteration_anywhere(input) ==
    LET ws == words(to_lowercase(input))
    IN  \E v, w \in 1..Len(ws) : v # w /\ Head(ws[v]) = Head(ws[w])

has_alliteration(input) == adjacent_alliteration[words(to_lowercase(input))]

\* an end rhyme that also takes two equal last words the dictionary does not
\* know (C22 depends on both words being looked up)
check_end_rhyme_or_same_word(last_line_option, cur_line) ==
    /\ last_line_option # << >>
    /\ LET last_line_words == words(last_line_option[1])
           cur_words == words(cur_line)
       IN  /\ last_line_words # << >>
           /\ cur_words # << >>
           /\ LET last_line_word == to_lowercase(last_line_words[Len(last_line_words)])
                  last_word == to_lowercase(cur_words[Len(cur_words)])
              IN  \/ last_line_word = last_word
                  \/ /\ CMUDICT_get[last_line_word] # << >>
                     /\ CMUDICT_get[last_word] # << >>
                     /\ rhymes(CMUDICT_get[last_line_word][1], CMUDICT_get[last_word][1])

check_end_rhyme(last_line_option, cur_line) ==
    /\ last_line_option # << >>
    /\ LET last_line_words == words(last_line_option[1])
           cur_words == words(cur_line)
       IN  /\ last_line_words # << >>
           /\ cur_words # << >>
           /\ LET last_line_rule ==
                      CMUDICT_get[to_lowercase(last_line_words[Len(last_line_words)])]
                  last_rule == CMUDICT_get[to_lowercase(cur_words[Len(cur_words)])]
              IN  /\ last_line_rule # << >>
                  /\ last_rule # << >>
                  /\ rhymes(last_line_rule[1], last_rule[1])

\* the chain without its catch-all: a line that matches no rule is an error
\* (C21 depends on Store taking every remaining line)
ins_type_partial(last_line_option, line) ==
    IF trim_is_empty(line) THEN Noop
    ELSE IF check_end_rhyme(last_line_option, line)
    THEN ConditionalPush(count_syllables(last_line_option[1]), count_syllables(line))
    ELSE IF contains(line, "/") THEN ConditionalGoto(count_syllables(line))
    ELSE IF INT_CAP_RE_is_match(line) THEN Negate
    ELSE IF CAP_RE_is_match(line) THEN Multiply
    ELSE IF SIMILIE_RE_is_match(line) THEN Add
    ELSE IF contains(line, "?") THEN PrintChar
    ELSE IF contains(line, ".") THEN PrintValue
    ELSE IF contains(line, ",") THEN Pop
    ELSE IF contains(line, "-") THEN Push
    ELSE IF has_alliteration(line) THEN Goto
    ELSE InsType("ParseError", 0, 0, 0)

\* the chain with has_alliteration tested before the punctuation rules (C9
\* tells the two orders apart)
ins_type_alliteration_first(last_line_option, line) ==
    IF trim_is_empty(line) THEN Noop
    ELSE IF check_end_rhyme(last_line_option, line)
    THEN ConditionalPush(count_syllables(last_line_option[1]), count_syllables(line))
    ELSE IF contains(line, "/") THEN ConditionalGoto(count_syllables(line))
    ELSE IF INT_CAP_RE_is_match(line) THEN Negate
    ELSE IF CAP_RE_is_match(line) THEN Multiply
    ELSE IF SIMILIE_RE_is_match(line) THEN Add
    ELSE IF has_alliteration(line) THEN Goto
    ELSE IF contains(line, "?") THEN PrintChar
    ELSE IF contains(line, ".") THEN PrintValue
    ELSE IF contains(line, ",") THEN Pop
    ELSE IF contains(line, "-") THEN Push
    ELSE Store(count_syllables(line))

\* the if / else if chain of parse: the kind of one line
ins_type(last_line_option, line) ==
    IF trim_is_empty(line) THEN Noop
    ELSE IF check_end_rhyme(last_line_option, line)
    THEN ConditionalPush(count_syllables(last_line_option[1]), count_syllables(line))
    ELSE IF contains(line, "/") THEN ConditionalGoto(count_syllables(line))
    ELSE IF INT_CAP_RE_is_match(line) THEN Negate
    ELSE IF CAP_RE_is_match(line) THEN Multiply
    ELSE IF SIMILIE_RE_is_match(line) THEN Add
    ELSE IF contains(line, "?") THEN PrintChar
    ELSE IF contains(line, ".") THEN PrintValue
    ELSE IF contains(line, ",") THEN Pop
    ELSE IF contains(line, "-") THEN Push
    ELSE IF has_alliteration(line) THEN Goto
    ELSE Store(count_syllables(line))

\* register selection on the line without its trailing whitespace (C11
\* depends on the line being tested as it was read)
register_of_trimmed(line) ==
    IF WS_START_RE_is_match(trim_end(line)) THEN Register1 ELSE Register0

register_of(line) ==
    IF WS_START_RE_is_match(line) THEN Register1 ELSE Register0

\* parse: one Instruction per line of input.lines(); last_line_option is the
\* line before it
parse_line[last_line_option \in Seq(STRING), line \in STRING] ==
    Instruction(ins_type(last_line_option, line), register_of(line), trim_end(line))

parse_lines[ls \in Seq(STRING)] ==
    [n \in 1..Len(ls) |-> parse_line[IF n = 1 THEN << >> ELSE <<ls[n - 1]>>, ls[n]]]

parse(input) == parse_lines[lines(input)]

-----------------------------------------------------------------------------
(* Memory (src/program.rs and ashpaper/src/program.rs, the same text).     *)
(* multiply, add and negate give the wrapped result; the overflow panic of *)
(* a build with overflow checks is decided by the action that calls them.  *)

Memory_new == [register0 |-> I64_ZERO, register1 |-> I64_ZERO, stack |-> << >>]

\* a store of the negated count (C36 depends on Store giving a value that
\* is not negative)
store_negated(m, register, syllables) ==
    IF register = Register0 THEN [m EXCEPT !.register0 = wrapping_neg(syllables)]
    ELSE [m EXCEPT !.register1 = wrapping_neg(syllables)]

store_syllables(m, register, syllables) ==
    IF register = Register0 THEN [m EXCEPT !.register0 = syllables]
    ELSE [m EXCEPT !.register1 = syllables]

push_to_stack(m, val) == [m EXCEPT !.stack = Append(@, val)]

\* a push underneath the values that are there: a queue, not a stack (C29
\* depends on the new value being on top)
push_below(m, register) ==
    [m EXCEPT !.stack =
        <<IF register = Register0 THEN m.register0 ELSE m.register1>> \o @]

push(m, register) ==
    IF register = Register0 THEN [m EXCEPT !.stack = Append(@, m.register0)]
    ELSE [m EXCEPT !.stack = Append(@, m.register1)]

\* pop that reads the top of the stack and leaves it there (C13 depends on
\* the value being removed)
pop_peek(m, register) ==
    IF m.stack = << >> THEN m
    ELSE IF register = Register0
         THEN [m EXCEPT !.register0 = m.stack[Len(m.stack)]]
         ELSE [m EXCEPT !.register1 = m.stack[Len(m.stack)]]

\* a pop that clears the register when the stack is empty (C28 depends on
\* the skip leaving the register alone)
pop_or_zero(m, register) ==
    IF m.stack = << >>
    THEN IF register = Register0 THEN [m EXCEPT !.register0 = I64_ZERO]
         ELSE [m EXCEPT !.register1 = I64_ZERO]
    ELSE LET val == m.stack[Len(m.stack)]
             popped == [m EXCEPT !.stack = SubSeq(@, 1, Len(@) - 1)]
         IN  IF register = Register0 THEN [popped EXCEPT !.register0 = val]
             ELSE [popped EXCEPT !.register1 = val]

pop(m, register) ==
    IF m.stack = << >> THEN m
    ELSE LET val == m.stack[Len(m.stack)]
             popped == [m EXCEPT !.stack = SubSeq(@, 1, Len(@) - 1)]
         IN  IF register = Register0 THEN [popped EXCEPT !.register0 = val]
             ELSE [popped EXCEPT !.register1 = val]

\* multiply with the active register as both factors (C1 depends on the
\* inactive register being the second factor)
multiply_by_itself(m, register) ==
    IF register = Register0
    THEN [m EXCEPT !.register0 = wrapping_mul(m.register0, m.register0)]
    ELSE [m EXCEPT !.register1 = wrapping_mul(m.register1, m.register1)]

multiply(m, register) ==
    IF register = Register0
    THEN [m EXCEPT !.register0 = wrapping_mul(m.register0, m.register1)]
    ELSE [m EXCEPT !.register1 = wrapping_mul(m.register1, m.register0)]

add(m, register) ==
    IF register = Register0
    THEN [m EXCEPT !.register0 = wrapping_add(m.register0, m.register1)]
    ELSE [m EXCEPT !.register1 = wrapping_add(m.register1, m.register0)]

get_active(m, register) ==
    IF register = Register0 THEN m.register0 ELSE m.register1

get_inactive(m, register) ==
    IF register = Register0 THEN m.register1 ELSE m.register0

\* a negation of both registers (C35 depends on the other register being
\* left alone)
negate_both(m, register) ==
    [m EXCEPT !.register0 = wrapping_neg(@), !.register1 = wrapping_neg(@)]

negate(m, register) ==
    IF register = Register0
    THEN [m EXCEPT !.register0 = wrapping_neg(m.register0)]
    ELSE [m EXCEPT !.register1 = wrapping_neg(m.register1)]

-----------------------------------------------------------------------------
(* The interpreter loop: one action per arm of the match.                  *)

\* the model stops a run that would push onto a stack of MaxStack values
MaxStack == 4

\* self.ast.get(instruction_pointer) is Some(ins)
Fetched == pc = "execute" /\ instruction_pointer < Len(ast)

ins == ast[instruction_pointer + 1]

reg == ins.register

Executing(kind) == Fetched /\ ins.instruction.kind = kind

\* the end of the loop body: instruction_pointer += 1
Advance ==
    /\ instruction_pointer' = instruction_pointer + 1
    /\ pc' = "execute"

\* a panic (arithmetic overflow in a build with overflow checks) ends the run
Panic ==
    /\ pc' = "panicked"
    /\ UNCHANGED <<mem, instruction_pointer, output>>

\* i64::abs panics on i64::MIN under overflow checks and returns it otherwise
abs_overflows(a) == overflow_checks /\ a = I64_MIN

\* the target without the reduction modulo the program length (C7 depends on
\* the reduction); a value of 2^16 or more is cut to its low sixteen bits
goto_target_unreduced(a) == as_usize_rem(wrapping_abs(a), BYTE * BYTE)

\* a target that moves with the depth of the stack (C30 depends on the
\* target being computed from the register alone)
goto_target_by_depth(a) ==
    (as_usize_rem(wrapping_abs(a), Len(ast)) + Len(mem.stack)) % Len(ast)

\* instruction_pointer = (x.abs() as usize) % (self.ast.len() as usize); continue 'outer
goto_target(a) == as_usize_rem(wrapping_abs(a), Len(ast))

\* (x.abs() % std::u8::MAX as i64) as u8: the remainder has the sign of x.abs()
printable(a) ==
    LET v == wrapping_abs(a)
    IN  IF is_negative(v) THEN (BYTE - as_usize_rem(wrapping_neg(v), 255)) % BYTE
        ELSE as_usize_rem(v, 255)

\* the comparison of the ConditionalPush arm
conditional_push_test(m, register) ==
    IF implementation = "plus"
    THEN lt(get_active(m, register), get_inactive(m, register))
    ELSE lt(get_active(m, Register0), get_inactive(m, Register1))

Const ==
    UNCHANGED <<implementation, overflow_checks, source, ast, command, stdout,
                exit_status>>

ExecConditionalGoto ==
    /\ Executing("ConditionalGoto")
    /\ IF gt(get_active(mem, reg), as_i64(ins.instruction.syllables))
       THEN IF abs_overflows(get_inactive(mem, reg)) THEN Panic
            ELSE /\ instruction_pointer' = goto_target(get_inactive(mem, reg))
                 /\ UNCHANGED <<pc, mem, output>>
       ELSE Advance /\ UNCHANGED <<mem, output>>
    /\ Const

ExecNegate ==
    /\ Executing("Negate")
    /\ IF overflow_checks /\ neg_overflows(get_active(mem, reg)) THEN Panic
       ELSE mem' = negate(mem, reg) /\ Advance /\ UNCHANGED output
    /\ Const

ExecMultiply ==
    /\ Executing("Multiply")
    /\ IF overflow_checks /\ mul_overflows(get_active(mem, reg), get_inactive(mem, reg))
       THEN Panic
       ELSE mem' = multiply(mem, reg) /\ Advance /\ UNCHANGED output
    /\ Const

ExecAdd ==
    /\ Executing("Add")
    /\ IF overflow_checks /\ add_overflows(get_active(mem, reg), get_inactive(mem, reg))
       THEN Panic
       ELSE mem' = add(mem, reg) /\ Advance /\ UNCHANGED output
    /\ Const

ExecPrintChar ==
    /\ Executing("PrintChar")
    /\ IF abs_overflows(get_active(mem, reg)) THEN Panic
       ELSE /\ output' = Append(output, printable(get_active(mem, reg)))
            /\ Advance /\ UNCHANGED mem
    /\ Const

ExecPrintValue ==
    /\ Executing("PrintValue")
    /\ output' = output \o display_i64(get_active(mem, reg))
    /\ Advance /\ UNCHANGED mem
    /\ Const

ExecPop ==
    /\ Executing("Pop")
    /\ mem' = pop(mem, reg)
    /\ Advance /\ UNCHANGED output
    /\ Const

ExecPush ==
    /\ Executing("Push")
    /\ Len(mem.stack) < MaxStack
    /\ mem' = push(mem, reg)
    /\ Advance /\ UNCHANGED output
    /\ Const

ExecStore ==
    /\ Executing("Store")
    /\ mem' = store_syllables(mem, reg, as_i64(ins.instruction.syllables))
    /\ Advance /\ UNCHANGED output
    /\ Const

ExecConditionalPush ==
    /\ Executing("ConditionalPush")
    /\ Len(mem.stack) < MaxStack
    /\ mem' = IF conditional_push_test(mem, reg)
              THEN push_to_stack(mem, as_i64(ins.instruction.prev_syllables))
              ELSE push_to_stack(mem, as_i64(ins.instruction.cur_syllables))
    /\ Advance /\ UNCHANGED output
    /\ Const

\* Goto that reads the inactive register (C5 depends on the register read)
ExecGoto_inactive ==
    /\ Executing("Goto")
    /\ IF abs_overflows(get_inactive(mem, reg)) THEN Panic
       ELSE /\ instruction_pointer' = goto_target(get_inactive(mem, reg))
            /\ UNCHANGED <<pc, mem, output>>
    /\ Const

\* Goto without its `continue 'outer`: the increment at the end of the loop
\* body follows the jump (C32 depends on the target being taken as it is)
ExecGoto_then_increment ==
    /\ Executing("Goto")
    /\ IF abs_overflows(get_active(mem, reg)) THEN Panic
       ELSE /\ instruction_pointer' = goto_target(get_active(mem, reg)) + 1
            /\ UNCHANGED <<pc, mem, output>>
    /\ Const

ExecGoto ==
    /\ Executing("Goto")
    /\ IF abs_overflows(get_active(mem, reg)) THEN Panic
       ELSE /\ instruction_pointer' = goto_target(get_active(mem, reg))
            /\ UNCHANGED <<pc, mem, output>>
    /\ Const

ExecNoop ==
    /\ Executing("Noop")
    /\ Advance /\ UNCHANGED <<mem, output>>
    /\ Const

\* a return that ends the output with a newline (C8 depends on the output
\* being returned as it is)
Return_with_newline ==
    /\ pc = "execute"
    /\ instruction_pointer >= Len(ast)
    /\ pc' = "returned"
    /\ output' = Append(output, 10)
    /\ UNCHANGED <<mem, instruction_pointer>>
    /\ Const

\* self.ast.get(instruction_pointer) is None: the loop ends and output is returned
Return ==
    /\ pc = "execute"
    /\ instruction_pointer >= Len(ast)
    /\ pc' = "returned"
    /\ UNCHANGED <<mem, instruction_pointer, output>>
    /\ Const

\* Program::create(source), and parser::parse(program) at the head of the
\* legacy execute
Create ==
    /\ pc = "create"
    /\ ast' = parse(source[1])
    /\ pc' = "execute"
    /\ UNCHANGED <<implementation, overflow_checks, source, mem,
                   instruction_pointer, output, command, stdout, exit_status>>

\* one turn of the loop of execute, or its return
Execute ==
    \/ ExecConditionalGoto
    \/ ExecNegate
    \/ ExecMultiply
    \/ ExecAdd
    \/ ExecPrintChar
    \/ ExecPrintValue
    \/ ExecPop
    \/ ExecPush
    \/ ExecStore
    \/ ExecConditionalPush
    \/ ExecGoto
    \/ ExecNoop
    \/ Return

Next == Create \/ Execute

-----------------------------------------------------------------------------
(* The programs that are run: the poems of the repository's tests, given   *)
(* as text, and literal instruction lists (Program.ast is a public field)  *)
(* that bring the registers and the stack to chosen values, execute one    *)
(* instruction of every kind there, and go on with a fixed epilogue.       *)

\* the seventeen lines of tests::factorial that follow the title
FACTORIAL_PROGRAM ==
    "\n\n  it is a calculator, like a\n      poem, is a poem, and finds\n"
    \o "        factori-\n          als\n  The input is the syllAbles\n"
    \o "in the title, count them, as one counts\n"
    \o "  (q) what other poem, programs can be writ\n  (a) anything a Turing\n"
    \o "    machine-machine-machine\n    would do\nre/cur\n"
    \o "    sion works too, in poems, programs, and this\n       a lovely.\n"
    \o "poem or calculator or nothing\nhow lovely can it be?\n"

\* the largest syllable count of a title that is run
MaxTitle == 21

\* a title of n syllables: "lovely poem" is 4 and "lovely poem and" is 5
RECURSIVE lovely_poems(_)
lovely_poems(m) ==
    IF m = 0 THEN ""
    ELSE IF m = 1 THEN "lovely"
    ELSE lovely_poems(m - 1) \o (IF m % 2 = 1 THEN " lovely" ELSE " poem")

title(n) ==
    IF n % 2 = 0 THEN lovely_poems(n \div 2)
    ELSE IF n = 1 THEN "and"
    ELSE lovely_poems(n \div 2) \o " and"

factorial_source(n) == title(n) \o "\n" \o FACTORIAL_PROGRAM

\* tests::rhyming
RHYMING_PROGRAM ==
    "\nsomebody once told me \n    he took a new elf \nand stabbed it with a shelf\n"
    \o "pop,\nprint.\nthen he took blue\nand stabbed it with some you \npop,\nprint.\n"

\* the four lines of tests::alliteration
ALLITERATION_LINES ==
    "poem or calculator or nothing\n    somebody once\n    fish fosh\nword."

\* tests::alliteration: the raw string after trim_start
ALLITERATION_PROGRAM == ALLITERATION_LINES \o "\n\n"

\* parser::tests::goto
GOTO_PROGRAM == "sells sea shells"

POEMS ==
    {factorial_source(n) : n \in 1..MaxTitle}
    \cup {RHYMING_PROGRAM, ALLITERATION_PROGRAM, ALLITERATION_LINES,
          ALLITERATION_LINES \o "\n", GOTO_PROGRAM, "", "\n"}

\* the largest value a probe's prologue stores into a register
MaxLoad == 4

\* the largest syllable count in a probed instruction
MaxOperand == 2

REGISTERS == {Register0, Register1}

literal(instruction, register) == Instruction(instruction, register, "")

\* instructions that leave v in the register
load(register, v) ==
    IF v >= 0 THEN <<literal(Store(v), register)>>
    ELSE <<literal(Store(-v), register), literal(Negate, register)>>

\* register0 = i64::MIN without any overflow: from -(2^3) and 2^3 the
\* products are -(2^6), 2^9, -(2^15), -(2^24), 2^39 and -(2^63)
MIN_PROLOGUE ==
    load(Register0, -8) \o load(Register1, 8)
    \o [i \in 1..6 |->
           literal(Multiply, IF i % 2 = 1 THEN Register1 ELSE Register0)]

\* one register takes every value up to MaxLoad in size, the other one of -1, 0, 1
LOADS ==
    {ab \in ((-MaxLoad)..MaxLoad) \X ((-MaxLoad)..MaxLoad) :
        (ab[1] \in -1..1) \/ (ab[2] \in -1..1)}

\* register0 = a * b for products around the modulus of PrintChar: 254, 255,
\* -255, 256 and 510
PRODUCTS == {<<2, 127>>, <<15, 17>>, <<-15, 17>>, <<16, 16>>, <<15, 34>>}

PRODUCT_PROLOGUES ==
    {load(Register0, ab[1]) \o load(Register1, ab[2])
         \o <<literal(Multiply, Register0)>> : ab \in PRODUCTS}

\* the third of the special prologues has no Negate: from 2^3 and 2^3 its
\* sixth product is 2^63, an overflow
PROLOGUES ==
    LET loads == {load(Register0, ab[1]) \o load(Register1, ab[2]) : ab \in LOADS}
                 \cup {MIN_PROLOGUE, MIN_PROLOGUE \o load(Register1, -1),
                       load(Register0, 8) \o SubSeq(MIN_PROLOGUE, 3, 9)}
    IN  loads \cup {p \o <<literal(Push, Register0), literal(Push, Register1)>> :
                       p \in loads}

PROBED ==
    {Noop, Negate, Multiply, Add, PrintChar, PrintValue, Pop, Push, Goto}
    \cup {Store(n) : n \in 0..MaxOperand}
    \cup {ConditionalGoto(n) : n \in 0..MaxOperand}
    \cup {ConditionalPush(p, c) : p \in 1..MaxOperand, c \in 1..MaxOperand}

EPILOGUE == <<literal(PrintValue, Register0), literal(Pop, Register1)>>

\* the probed instruction is the last one, or the epilogue follows it
PROBES ==
    {p \o <<literal(k, r)>> \o e :
        p \in PROLOGUES, k \in PROBED, r \in REGISTERS, e \in {<< >>, EPILOGUE}}
    \cup {p \o <<literal(k, r)>> \o e :
              p \in PRODUCT_PROLOGUES, k \in {PrintChar, PrintValue},
              r \in REGISTERS, e \in {<< >>, EPILOGUE}}
    \cup {<< >>}

\* a call of the library, as the tests make it: no process of a binary
Library ==
    /\ command = "library"
    /\ stdout = << >>
    /\ exit_status = "running"

InitBuild ==
    /\ Library
    /\ implementation \in {"plus", "legacy"}
    /\ overflow_checks \in BOOLEAN
    /\ mem = Memory_new
    /\ instruction_pointer = 0
    /\ output = << >>

\* a poem: Program::create has still to parse it
InitPoems ==
    /\ InitBuild
    /\ pc = "create"
    /\ source \in {<<text>> : text \in POEMS}
    /\ ast = << >>

\* a literal Program { ast }
InitProbes ==
    /\ InitBuild
    /\ pc = "execute"
    /\ source = << >>
    /\ ast \in PROBES

Init == InitPoems \/ InitProbes

Spec == Init /\ [][Next]_vars

\* the poems alone; the interpreter runs on until it returns or panics
PoemSpec == InitPoems /\ [][Next]_vars /\ WF_vars(Next)

-----------------------------------------------------------------------------
(* The JIT (src/jit.rs) on a 64-bit target: JIT::compile builds one block   *)
(* per instruction and Program::jit_execute calls the compiled function.    *)
(* The variables r0 and r1 are mem.register0 and mem.register1, the stack   *)
(* slot from stack.start to stack.ptr is mem.stack, the block that runs is  *)
(* instruction_pointer, and output is what put_value and put_char have      *)
(* printed.  pc is "compile", then "jit" while the function runs, and       *)
(* "returned", "trapped", "panicked", "crashed" or "jit_error" at its end.   *)

STACK_SIZE == 128

\* the block of translate_instruction that runs next is the one of `kind`
Translated(kind) ==
    /\ pc = "jit"
    /\ instruction_pointer < Len(ast)
    /\ ins.instruction.kind = kind

\* connect_end: a jump to the next block, or return_ after the last block
connect_end ==
    IF instruction_pointer + 1 < Len(ast)
    THEN instruction_pointer' = instruction_pointer + 1 /\ pc' = "jit"
    ELSE instruction_pointer' = Len(ast) /\ pc' = "returned"

\* br_table(index_val, unreach_trap, jump_table): the index is read unsigned;
\* an index that misses the table branches to the block of
\* trap(UnreachableCodeReached)
br_table(index_val) ==
    IF ULessFrom[index_val, as_i64(Len(ast)), I64_BYTES]
    THEN /\ instruction_pointer' = as_usize_rem(index_val, Len(ast))  \* the index itself
         /\ pc' = "jit"
    ELSE /\ pc' = "trapped"
         /\ UNCHANGED instruction_pointer

\* the blocks of Store, Negate, Multiply and Add: iconst, ineg, imul and iadd
\* on the variable of the register; the machine instructions wrap
JitStore ==
    /\ Translated("Store")
    /\ mem' = store_syllables(mem, reg, as_i64(ins.instruction.syllables))
    /\ connect_end /\ UNCHANGED output
    /\ Const

JitNegate ==
    /\ Translated("Negate")
    /\ mem' = negate(mem, reg)
    /\ connect_end /\ UNCHANGED output
    /\ Const

JitMultiply ==
    /\ Translated("Multiply")
    /\ mem' = multiply(mem, reg)
    /\ connect_end /\ UNCHANGED output
    /\ Const

JitAdd ==
    /\ Translated("Add")
    /\ mem' = add(mem, reg)
    /\ connect_end /\ UNCHANGED output
    /\ Const

\* br_table on the value of the active register
JitGoto ==
    /\ Translated("Goto")
    /\ br_table(get_active(mem, reg))
    /\ UNCHANGED <<mem, output>>
    /\ Const

\* icmp SignedGreaterThan; then_block: br_table on the value of the inactive
\* register; merge_block: connect_end
JitConditionalGoto ==
    /\ Translated("ConditionalGoto")
    /\ IF gt(get_active(mem, reg), as_i64(ins.instruction.syllables))
       THEN br_table(get_inactive(mem, reg))
       ELSE connect_end
    /\ UNCHANGED <<mem, output>>
    /\ Const

\* translate_push: store at stack.ptr and advance it, with no comparison
\* against stack.end.  With STACK_SIZE values in the slot the store writes
\* outside the slot, which is undefined: the function crashes, or it goes on
\* with the value stored there (the model follows it for one such value).
JitPush ==
    /\ Translated("Push")
    /\ Len(mem.stack) <= STACK_SIZE
    /\ \/ mem' = push(mem, reg) /\ connect_end
       \/ /\ Len(mem.stack) = STACK_SIZE
          /\ pc' = "crashed"
          /\ UNCHANGED <<mem, instruction_pointer>>
    /\ UNCHANGED output
    /\ Const

\* translate_pop: skipped when stack.ptr <= stack.start
JitPop ==
    /\ Translated("Pop")
    /\ mem' = pop(mem, reg)
    /\ connect_end /\ UNCHANGED output
    /\ Const

\* call put_value: print!("{}", val)
JitPrintValue ==
    /\ Translated("PrintValue")
    /\ output' = output \o display_i64(get_active(mem, reg))
    /\ connect_end /\ UNCHANGED mem
    /\ Const

\* call put_char: (c.abs() % std::u8::MAX as i64) as u8, printed as a char
JitPrintChar ==
    /\ Translated("PrintChar")
    /\ IF abs_overflows(get_active(mem, reg)) THEN Panic
       ELSE /\ output' = Append(output, printable(get_active(mem, reg)))
            /\ connect_end /\ UNCHANGED mem
    /\ Const

JitNoop ==
    /\ Translated("Noop")
    /\ connect_end /\ UNCHANGED <<mem, output>>
    /\ Const

\* the function returns from its last block, or at once when there is none
JitReturn ==
    /\ pc = "jit"
    /\ instruction_pointer >= Len(ast)
    /\ pc' = "returned"
    /\ UNCHANGED <<mem, instruction_pointer, output>>
    /\ Const

\* The ConditionalPush arm never switches to its merge_block: after the
\* jump that ends then_block it gives connect_end a block that is already
\* filled, and merge_block stays outside the layout.  The frontend's debug
\* assertion stops a debug build there; without it define_function rejects
\* the function and compile returns the error.
malformed == \E i \in 1..Len(ast) : ast[i].instruction.kind = "ConditionalPush"

\* Program::jit_execute: JIT::compile(&self.ast)?, then func().  The entry
\* block defines the stack variables and r0 = r1 = 0 and is connected to the
\* first block.
Compile ==
    /\ pc = "compile"
    /\ pc' = IF malformed THEN (IF overflow_checks THEN "panicked" ELSE "jit_error")
             ELSE "jit"
    /\ UNCHANGED <<mem, instruction_pointer, output>>
    /\ Const

JitNext ==
    \/ Compile
    \/ JitStore
    \/ JitNegate
    \/ JitMultiply
    \/ JitAdd
    \/ JitGoto
    \/ JitConditionalGoto
    \/ JitPush
    \/ JitPop
    \/ JitPrintValue
    \/ JitPrintChar
    \/ JitNoop
    \/ JitReturn

\* Push and Goto to block 0, again and again: the stack slot fills up
PUSH_LOOP == <<literal(Push, Register0), literal(Goto, Register1)>>

\* the instruction lists given to jit_execute: the probes, the loop of
\* pushes and the poems as Program::create has parsed them
InitJit ==
    /\ Library
    /\ implementation = "jit"
    /\ overflow_checks \in BOOLEAN
    /\ mem = Memory_new
    /\ instruction_pointer = 0
    /\ output = << >>
    /\ pc = "compile"
    /\ \/ source = << >> /\ ast \in PROBES \cup {PUSH_LOOP}
       \/ \E text \in POEMS : source = <<text>> /\ ast = parse(text)

JitSpec == InitJit /\ [][JitNext]_vars

-----------------------------------------------------------------------------
(* The binaries: ashpaper-plus (src/bin/ashpaper-plus.rs, with the jit      *)
(* feature), ashpaper (src/bin/ashpaper.rs) and ashpaper-bin                *)
(* (ashpaper-bin/src/main.rs), each run on the file of a poem.  stdout is a *)
(* LineWriter: what print! has written after the last newline is in its     *)
(* buffer until the process flushes it at a regular end.                    *)

COMMANDS == {"ashpaper-plus", "ashpaper-plus --jit", "ashpaper", "ashpaper-bin"}

\* what the binary runs the poem with
backend(cmd) ==
    CASE cmd = "ashpaper-plus --jit" -> "jit"
      [] cmd = "ashpaper-bin" -> "legacy"
      [] OTHER -> "plus"

\* execute_program: println!("jit executing") or println!("executing");
\* the other two binaries print nothing of their own
banner(cmd) ==
    LET executing == <<101, 120, 101, 99, 117, 116, 105, 110, 103, 10>>
    IN  CASE cmd = "ashpaper-plus --jit" -> <<106, 105, 116, 32>> \o executing
          [] cmd = "ashpaper-plus" -> executing
          [] OTHER -> << >>

\* the part of a text that a LineWriter has passed on: up to its last newline
flushed(text) ==
    LET ends == {i \in 1..Len(text) : text[i] = 10}
    IN  IF ends = {} THEN << >>
        ELSE SubSeq(text, 1, CHOOSE i \in ends : \A j \in ends : j <= i)

\* main up to the call of the backend: fs::read_to_string, Program::create
\* (the legacy execute parses by itself), and the banner of execute_program
Main ==
    /\ pc = "main"
    /\ ast' = parse(source[1])
    /\ stdout' = banner(command)
    /\ pc' = IF implementation = "jit" THEN "compile" ELSE "execute"
    /\ UNCHANGED <<implementation, overflow_checks, source, mem,
                   instruction_pointer, output, command, exit_status>>

\* The end of the process.  The interpreter's String is printed once execute
\* has returned it; what put_value and put_char have printed is on stdout at
\* a regular end.  An error of jit_execute is written to stderr by
\* `if let Err(err) = ... { eprintln!("{}", err); }` and main returns.  A
\* panic of the interpreter ends the process with status 101 before the
\* String is printed; a trap or a crash of the compiled function kills the
\* process with what stdout has buffered; a panic of put_char, which cannot
\* unwind through the compiled function, does one or the other.
Exit ==
    /\ command # "library"
    /\ pc \in {"returned", "jit_error", "panicked", "trapped", "crashed"}
    /\ pc' = "exited"
    /\ CASE pc = "returned" -> stdout' = stdout \o output /\ exit_status' = "0"
         [] pc = "jit_error" -> stdout' = stdout /\ exit_status' = "0"
         [] pc = "panicked" /\ implementation # "jit" ->
                stdout' = stdout /\ exit_status' = "101"
         [] pc = "panicked" /\ implementation = "jit" ->
                \/ stdout' = stdout \o output /\ exit_status' = "101"
                \/ stdout' = stdout \o flushed(output) /\ exit_status' = "signal"
         [] pc \in {"trapped", "crashed"} ->
                stdout' = stdout \o flushed(output) /\ exit_status' = "signal"
    /\ UNCHANGED <<implementation, overflow_checks, source, ast, mem,
                   instruction_pointer, output, command>>

CliNext == Main \/ Execute \/ JitNext \/ Exit

InitCli ==
    /\ command \in COMMANDS
    /\ implementation = backend(command)
    /\ overflow_checks \in BOOLEAN
    /\ stdout = << >>
    /\ exit_status = "running"
    /\ pc = "main"
    /\ source \in {<<text>> : text \in POEMS}
    /\ ast = << >>
    /\ mem = Memory_new
    /\ instruction_pointer = 0
    /\ output = << >>

CliSpec == InitCli /\ [][CliNext]_vars

-----------------------------------------------------------------------------
(* The parser alone, on every short text over the characters its rules     *)
(* look at, and on a few longer texts.                                     *)

ALPHABET == {"a", "s", "A", " ", "\n", "/", "?", ".", ",", "-"}

\* the longest text that is enumerated
MaxSourceLen == 4

RECURSIVE texts(_)
texts(n) ==
    IF n = 0 THEN {""}
    ELSE LET shorter == texts(n - 1)
         IN  shorter \cup {t \o c : t \in shorter, c \in ALPHABET}

\* a rhyming line with '.', a '/' line with a capital, an alliterative line
\* with ',', and an alliterative line that matches no earlier rule
RULE_ORDER_POEM == "a\na.\n/Aa\na a,\ns s"

PARSED ==
    texts(MaxSourceLen)
    \cup {RULE_ORDER_POEM, RHYMING_PROGRAM, ALLITERATION_PROGRAM, GOTO_PROGRAM,
          "a\r\nas\n\n", "he thrust every elf\n    far back on the shelf",
          "a\n\r\n\ts\n \t", "a \na\n\na",
          "supercalifragilisticexpialidocious\nre/cur", "zziouzz", "zzyzz",
          "a s a\ns  s\na A", "no alliteration here", "one"}
    \cup {"zz" \o d \o "zz" : d \in DIPHTHONGS}
    \cup {"zz" \o d \o "zz" : d \in {"ae", "ia", "io", "uo", "ya", "aa"}}

InitParse ==
    /\ Library
    /\ implementation = "legacy"
    /\ overflow_checks = TRUE
    /\ mem = Memory_new
    /\ instruction_pointer = 0
    /\ output = << >>
    /\ pc = "create"
    /\ source \in {<<text>> : text \in PARSED}
    /\ ast = << >>

ParseSpec == InitParse /\ [][Create]_vars


-----------------------------------------------------------------------------
(* Properties of the interpreter on the test poems.                        *)

\* n! for n = 1..20, as the tests of program.rs write the expected output
FACTORIALS ==
    <<"1", "2", "6", "24", "120", "720", "5040", "40320", "362880", "3628800",
      "39916800", "479001600", "6227020800", "87178291200", "1307674368000",
      "20922789888000", "355687428096000", "6402373705728000",
      "121645100408832000", "2432902008176640000">>

\* the code points of a text of decimal digits
digit_codes(text) ==
    [i \in 1..Len(text) |->
        47 + CHOOSE d \in 1..Len(DIGITS) : At(DIGITS, d) = At(text, i)]

\* the poem is the factorial program under a title of 2 to 20 syllables
FactorialInput == \E n \in 2..20 : source = <<factorial_source(n)>>

FactorialOutput ==
    LET n == CHOOSE k \in 2..20 : source = <<factorial_source(k)>>
    IN  digit_codes(FACTORIALS[n]) \o <<10>>

\* C1: run on the factorial poem under a title of n syllables, 2 <= n <= 20,
\* the interpreter halts and returns the decimal text of n! followed by one
\* newline.
C1_factorial_poem ==
    (pc = "create" /\ FactorialInput)
        ~> (pc = "returned" /\ FactorialInput /\ output = FactorialOutput)

\* the title "lovely poem and" (5 syllables) has returned "120\n"
C1_witness ==
    /\ pc = "returned"
    /\ source = <<"lovely poem and\n" \o FACTORIAL_PROGRAM>>
    /\ output = <<49, 50, 48, 10>>

\* C2: the rhyming program halts with output exactly "64".
C2_rhyming_prints_64 ==
    (pc = "returned" /\ source = <<RHYMING_PROGRAM>>) => output = <<54, 52>>

\* C3: in every interpreter, ConditionalPush{prev, cur} on register reg pushes
\* exactly one value: prev when the value of reg is less than the value of
\* the other register, and cur otherwise.
C3_conditional_push_is_register_relative ==
    [][Executing("ConditionalPush") =>
          mem'.stack =
              Append(mem.stack,
                     as_i64(IF lt(get_active(mem, reg), get_inactive(mem, reg))
                            THEN ins.instruction.prev_syllables
                            ELSE ins.instruction.cur_syllables))]_vars

\* C4: Goto with active value A continues at index |A| mod N, without a
\* further increment, and leaves registers, stack and output unchanged.
C4_goto_continues_at_abs_mod ==
    [][Executing("Goto") =>
          /\ pc' = "execute"
          /\ instruction_pointer' = goto_target(get_active(mem, reg))
          /\ UNCHANGED <<mem, output>>]_vars

FourLines == source \in {<<ALLITERATION_LINES>>, <<ALLITERATION_LINES \o "\n">>}

\* C5 as stated: the four-line program halts and its output is empty.
C5_four_lines_halt ==
    (pc = "create" /\ source = <<ALLITERATION_LINES>>)
        ~> (pc = "returned" /\ output = << >>)

\* C5, amended: the four-line program never halts.  Its Goto@R1 with r1 = 4
\* and N = 4 continues at index 0, again and again, and the output stays
\* empty; with the blank fifth line of tests::alliteration the Goto continues
\* at index 4 and the program halts with empty output.
C5_four_lines_loop ==
    /\ [](FourLines => pc \in {"create", "execute"} /\ output = << >>)
    /\ FourLines ~> (pc = "execute" /\ instruction_pointer = 0
                     /\ mem.register1 = as_i64(4))
    /\ (source = <<ALLITERATION_PROGRAM>>) ~> (pc = "returned" /\ output = << >>)

\* the four-line program is back at index 0 after its Goto
C5_witness ==
    /\ source = <<ALLITERATION_LINES>>
    /\ pc = "execute"
    /\ instruction_pointer = 0
    /\ mem.register0 = as_i64(10)
    /\ mem.register1 = as_i64(4)

\* C6: ConditionalGoto(s) with active value A and inactive value I continues
\* at index |I| mod N when A > s and at ip + 1 when A <= s; registers, stack
\* and output are unchanged.
C6_conditional_goto ==
    [][Executing("ConditionalGoto") =>
          /\ pc' = "execute"
          /\ instruction_pointer' =
                 IF gt(get_active(mem, reg), as_i64(ins.instruction.syllables))
                 THEN goto_target(get_inactive(mem, reg))
                 ELSE instruction_pointer + 1
          /\ UNCHANGED <<mem, output>>]_vars

\* C7: in a program of N > 0 instructions ip is never above N, an
\* instruction is executed only at 0 <= ip < N, and the interpreter returns
\* exactly when ip >= N.
C7_ip_within_program ==
    Len(ast) > 0 =>
        /\ instruction_pointer \in 0..Len(ast)
        /\ pc = "returned" => instruction_pointer >= Len(ast)
        /\ pc = "execute" => (ENABLED Return <=> instruction_pointer >= Len(ast))

\* the five-line alliteration poem has returned after its Goto to the last index
C7_witness ==
    /\ source = <<ALLITERATION_PROGRAM>>
    /\ pc = "returned"
    /\ instruction_pointer = Len(ast)
    /\ Len(ast) = 5

\* C8: the empty program executes no instruction and returns the empty
\* string; no index modulo N = 0 is computed.
C8_empty_program ==
    (pc # "create" /\ Len(ast) = 0) =>
        /\ pc \in {"execute", "returned"}
        /\ output = << >>
        /\ mem = Memory_new
        /\ instruction_pointer = 0
        /\ pc = "execute" => ENABLED Return
        /\ ~ENABLED ExecGoto /\ ~ENABLED ExecConditionalGoto

\* the empty text has been parsed to no instruction and executed
C8_witness ==
    /\ source = <<"">>
    /\ pc = "returned"
    /\ Len(ast) = 0
    /\ output = << >>

-----------------------------------------------------------------------------
(* Properties of the parser.                                               *)

RULE_KINDS ==
    <<"Noop", "ConditionalPush", "ConditionalGoto", "Negate", "Multiply", "Add",
      "PrintChar", "PrintValue", "Pop", "Push", "Goto", "Store">>

\* which of the twelve rules match a line, in the order of the list
rule_matches(last_line_option, line) ==
    <<trim_is_empty(line),
      check_end_rhyme(last_line_option, line),
      contains(line, "/"),
      INT_CAP_RE_is_match(line),
      CAP_RE_is_match(line),
      SIMILIE_RE_is_match(line),
      contains(line, "?"),
      contains(line, "."),
      contains(line, ","),
      contains(line, "-"),
      has_alliteration(line),
      TRUE>>

first_rule(matches) ==
    CHOOSE r \in 1..Len(matches) : matches[r] /\ \A q \in 1..(r - 1) : ~matches[q]

\* C9: every line gets the kind of the first rule that matches it, in the
\* order blank, end-rhyme, '/', internal capital, capitalised word, like/as,
\* '?', '.', ',', '-', alliteration, and Store(syllables of the line) last.
C9_first_matching_rule ==
    pc = "execute" =>
        LET ls == lines(source[1])
        IN  \A n \in 1..Len(ast) :
                LET r == first_rule(rule_matches(
                             IF n = 1 THEN << >> ELSE <<ls[n - 1]>>, ls[n]))
                IN  /\ ast[n].instruction.kind = RULE_KINDS[r]
                    /\ r = 12 => ast[n].instruction.syllables = count_syllables(ls[n])

\* a rhyming line with '.' is ConditionalPush, a '/' line with a capital is
\* ConditionalGoto, an alliterative line with ',' is Pop and an alliterative
\* line alone is Goto
C9_witness ==
    /\ pc = "execute"
    /\ source = <<RULE_ORDER_POEM>>
    /\ [n \in 1..Len(ast) |-> ast[n].instruction.kind]
           = <<"Store", "ConditionalPush", "ConditionalGoto", "Pop", "Goto">>

\* the positions of the newline characters of a text
newlines(s) == {j \in 1..Len(s) : At(s, j) = "\n"}

\* the position of the i-th newline character
newline(s, i) ==
    CHOOSE j \in newlines(s) : Cardinality({x \in newlines(s) : x <= j}) = i

\* the text between the (i - 1)-th and the i-th newline character, or the end
segment(s, i) ==
    SubSeq(s, IF i = 1 THEN 1 ELSE newline(s, i - 1) + 1,
              IF i <= Cardinality(newlines(s)) THEN newline(s, i) - 1 ELSE Len(s))

\* C10 as stated: a source with k newline characters yields k + 1
\* instructions.
C10_one_more_than_newlines ==
    pc = "execute" => Len(ast) = Cardinality(newlines(source[1])) + 1

\* C10, amended: parse returns one instruction per line in source order,
\* where a final newline ends the last line and starts no further one: a
\* source with k newline characters yields k instructions when it is empty
\* or ends with a newline, and k + 1 otherwise.
C10_one_per_line ==
    pc = "execute" =>
        LET s == source[1]
            k == Cardinality(newlines(s))
            n == IF s = "" \/ At(s, Len(s)) = "\n" THEN k ELSE k + 1
        IN  /\ Len(ast) = n
            /\ \A i \in 1..n : ast[i].line = trim_end(segment(s, i))

\* three newline characters, the last one final: three instructions
C10_witness ==
    /\ pc = "execute"
    /\ source = <<"\n\n-\n">>
    /\ Len(ast) = 3
    /\ ast[2].instruction.kind = "Noop"
    /\ ast[3].instruction.kind = "Push"

\* the i-th line as parse reads it: the text between two newline characters
\* without the carriage return that str::lines() drops before a newline
raw_line(s, i) ==
    LET piece == segment(s, i)
    IN  IF i <= Cardinality(newlines(s)) /\ Len(piece) > 0
           /\ At(piece, Len(piece)) = "\r"
        THEN SubSeq(piece, 1, Len(piece) - 1)
        ELSE piece

\* C11: every instruction of parse, Noop included, has register R1 if and
\* only if the first character of its raw line is a whitespace character, and
\* R0 otherwise (an empty line gives R0), whatever its kind and whatever the
\* other lines are.
C11_register_by_first_character ==
    pc = "execute" =>
        \A i \in 1..Len(ast) :
            LET line == raw_line(source[1], i)
            IN  ast[i].register =
                    IF line # "" /\ At(line, 1) \in {" ", "\t", "\r", "\f"}
                    THEN Register1 ELSE Register0

\* a carriage-return line is an empty line (R0), a tab starts an R1 line and a
\* line of whitespace alone is a Noop on R1
C11_witness ==
    /\ pc = "execute"
    /\ source = <<"a\n\r\n\ts\n \t">>
    /\ [i \in 1..Len(ast) |-> ast[i].register]
           = <<Register0, Register0, Register1, Register1>>
    /\ ast[4].instruction.kind = "Noop"

-----------------------------------------------------------------------------
(* Properties of single instructions.                                      *)

\* C12: PrintChar appends exactly one character, of code point |A| mod 255
\* for the active value A (so never 255), and changes nothing else: the
\* registers and the stack stay and execution goes on at ip + 1.
C12_print_char ==
    [][Executing("PrintChar") =>
          /\ output' = Append(output, as_usize_rem(wrapping_abs(get_active(mem, reg)), 255))
          /\ output'[Len(output')] \in 0..254
          /\ pc' = "execute"
          /\ instruction_pointer' = instruction_pointer + 1
          /\ UNCHANGED mem]_vars

\* C13: Pop on an empty stack changes neither register, stack nor output and
\* goes on at ip + 1; Pop on a non-empty stack removes the top value and
\* writes it into the register of the instruction, and into nothing else.
C13_pop ==
    [][Executing("Pop") =>
          /\ pc' = "execute"
          /\ instruction_pointer' = instruction_pointer + 1
          /\ output' = output
          /\ IF mem.stack = << >> THEN mem' = mem
             ELSE /\ mem'.stack = SubSeq(mem.stack, 1, Len(mem.stack) - 1)
                  /\ get_active(mem', reg) = mem.stack[Len(mem.stack)]
                  /\ get_inactive(mem', reg) = get_inactive(mem, reg)]_vars

\* Pop@R0 has taken the -1 that Push@R1 left on top of the 2 of Push@R0
C13_witness ==
    /\ pc = "execute"
    /\ instruction_pointer = 6
    /\ ast = load(Register0, 2) \o load(Register1, -1)
               \o <<literal(Push, Register0), literal(Push, Register1),
                    literal(Pop, Register0)>>
    /\ mem = [register0 |-> wrapping_neg(as_i64(1)),
              register1 |-> wrapping_neg(as_i64(1)),
              stack |-> <<as_i64(2)>>]

\* C14: Negate, Multiply and Add wrap in 64-bit two's complement and never
\* abort: the register of the instruction becomes -A, A * I or A + I modulo
\* 2^64 (the negation of the minimum is the minimum), nothing else changes
\* and execution goes on at ip + 1.
C14_arithmetic_wraps ==
    [][(Executing("Negate") \/ Executing("Multiply") \/ Executing("Add")) =>
          LET A == get_active(mem, reg)
              I == get_inactive(mem, reg)
          IN  /\ pc' = "execute"
              /\ instruction_pointer' = instruction_pointer + 1
              /\ get_active(mem', reg) =
                     CASE ins.instruction.kind = "Negate" -> wrapping_neg(A)
                       [] ins.instruction.kind = "Multiply" -> wrapping_mul(A, I)
                       [] ins.instruction.kind = "Add" -> wrapping_add(A, I)
              /\ (ins.instruction.kind = "Negate" /\ A = I64_MIN)
                     => get_active(mem', reg) = I64_MIN
              /\ get_inactive(mem', reg) = I
              /\ mem'.stack = mem.stack
              /\ output' = output]_vars

-----------------------------------------------------------------------------
(* Properties of the JIT.                                                  *)

\* what one turn of the loop of Program::execute makes of the registers, the
\* stack, the instruction pointer and the output of the current state
interpreted ==
    LET A == get_active(mem, reg)
        I == get_inactive(mem, reg)
        kind == ins.instruction.kind
        next(m, out) == [pc |-> "execute", mem |-> m,
                         instruction_pointer |-> instruction_pointer + 1,
                         output |-> out]
        jump(v) == IF abs_overflows(v)
                   THEN [next(mem, output) EXCEPT
                            !.pc = "panicked", !.instruction_pointer = instruction_pointer]
                   ELSE [next(mem, output) EXCEPT
                            !.instruction_pointer = goto_target(v)]
        panic == [next(mem, output) EXCEPT
                     !.pc = "panicked", !.instruction_pointer = instruction_pointer]
    IN  CASE kind = "ConditionalGoto" ->
                 IF gt(A, as_i64(ins.instruction.syllables)) THEN jump(I)
                 ELSE next(mem, output)
          [] kind = "Negate" ->
                 IF overflow_checks /\ neg_overflows(A) THEN panic
                 ELSE next(negate(mem, reg), output)
          [] kind = "Multiply" ->
                 IF overflow_checks /\ mul_overflows(A, I) THEN panic
                 ELSE next(multiply(mem, reg), output)
          [] kind = "Add" ->
                 IF overflow_checks /\ add_overflows(A, I) THEN panic
                 ELSE next(add(mem, reg), output)
          [] kind = "PrintChar" ->
                 IF abs_overflows(A) THEN panic
                 ELSE next(mem, Append(output, printable(A)))
          [] kind = "PrintValue" -> next(mem, output \o display_i64(A))
          [] kind = "Pop" -> next(pop(mem, reg), output)
          [] kind = "Push" -> next(push(mem, reg), output)
          [] kind = "Store" ->
                 next(store_syllables(mem, reg, as_i64(ins.instruction.syllables)), output)
          [] kind = "ConditionalPush" ->
                 next(push_to_stack(mem,
                          as_i64(IF lt(A, I) THEN ins.instruction.prev_syllables
                                 ELSE ins.instruction.cur_syllables)), output)
          [] kind = "Goto" -> jump(A)
          [] kind = "Noop" -> next(mem, output)

\* the value is an index of the program: 0 <= v < N
in_program(v) == ULessFrom[v, as_i64(Len(ast)), I64_BYTES]

\* the block that runs keeps its jump within [0, N) and the stack within
\* STACK_SIZE values
WithinJitLimits ==
    /\ Len(mem.stack) <= STACK_SIZE
    /\ ins.instruction.kind = "Push" => Len(mem.stack) < STACK_SIZE
    /\ ins.instruction.kind = "Goto" => in_program(get_active(mem, reg))
    /\ (/\ ins.instruction.kind = "ConditionalGoto"
        /\ gt(get_active(mem, reg), as_i64(ins.instruction.syllables)))
           => in_program(get_inactive(mem, reg))

\* C15: as long as the jumps stay within [0, N) and the stack within 128
\* values, the compiled function does what the interpreter does on the same
\* instruction list: every list compiles, and every block leaves r0, r1, the
\* stack, the index of the next instruction and the text printed so far as
\* one turn of the interpreter's loop leaves them.
C15_jit_matches_interpreter ==
    /\ [](pc # "jit_error")
    /\ [][pc = "compile" => pc' = "jit"]_vars
    /\ [][(pc = "jit" /\ instruction_pointer < Len(ast) /\ WithinJitLimits) =>
             /\ pc' = (IF interpreted.pc = "panicked" THEN "panicked"
                       ELSE IF interpreted.instruction_pointer < Len(ast) THEN "jit"
                       ELSE "returned")
             /\ mem' = interpreted.mem
             /\ instruction_pointer' = interpreted.instruction_pointer
             /\ output' = interpreted.output]_vars

\* C16: in the compiled function the stack never holds more than the 128
\* values of its slot: a Push on a full stack branches to the stack-overflow
\* trap and stores nothing.
C16_stack_within_slot ==
    /\ [](implementation = "jit" => Len(mem.stack) <= STACK_SIZE)
    /\ [][(Translated("Push") /\ Len(mem.stack) = STACK_SIZE) =>
             (pc' = "trapped" /\ UNCHANGED mem)]_vars

\* C17: the compiled Goto with active value v goes to the block of
\* instruction v when 0 <= v < N and reaches the unreachable trap otherwise,
\* where the interpreter continues at |v| mod N; registers, stack and output
\* stay as they are.
C17_jit_goto ==
    [][Translated("Goto") =>
          LET v == get_active(mem, reg)
          IN  /\ IF in_program(v)
                 THEN pc' = "jit" /\ as_i64(instruction_pointer') = v
                 ELSE /\ pc' = "trapped"
                      /\ interpreted.pc = "execute"
                      /\ interpreted.instruction_pointer
                             = as_usize_rem(wrapping_abs(v), Len(ast))
              /\ UNCHANGED <<mem, output>>]_vars

\* C18: the compiled ConditionalGoto(s) with active value A and inactive
\* value I branches through the jump table on |I| when A > s, so that a
\* negative I with |I| < N goes to block |I|, and falls through to the next
\* block when A <= s.
C18_jit_conditional_goto ==
    [][Translated("ConditionalGoto") =>
          LET A == get_active(mem, reg)
              I == get_inactive(mem, reg)
          IN  /\ IF gt(A, as_i64(ins.instruction.syllables))
                 THEN IF in_program(wrapping_abs(I))
                      THEN pc' = "jit" /\ as_i64(instruction_pointer') = wrapping_abs(I)
                      ELSE pc' = "trapped"
                 ELSE /\ instruction_pointer' = instruction_pointer + 1
                      /\ pc' = (IF instruction_pointer + 1 < Len(ast) THEN "jit"
                                ELSE "returned")
              /\ UNCHANGED <<mem, output>>]_vars

-----------------------------------------------------------------------------
(* Properties of the binaries.                                             *)

\* C19: when the JIT is selected and jit_execute returns an error, the
\* process ends with a nonzero exit status; it ends with status 0 only when
\* the execution succeeded.
C19_jit_failure_exit_status ==
    [][pc' = "exited" =>
          /\ pc = "jit_error" => exit_status' # "0"
          /\ exit_status' = "0" => pc = "returned"]_vars

\* C20: what a binary has written to standard output when it ends is
\* exactly what the executed PrintValue and PrintChar instructions produced,
\* in their order, with nothing before and nothing after.
C20_stdout_is_the_output ==
    pc = "exited" => stdout = output

-----------------------------------------------------------------------------
(* Properties of parse and execute as a whole.                             *)

\* C21: parse and execute never produce an error value.  parse gives one
\* instruction per line and each has one of the twelve kinds; a run of
\* execute that ends with a value ends with the output string, and the only
\* other end is the abort of a panic, which returns nothing.
C21_no_error_value ==
    /\ pc \in {"create", "execute", "returned", "panicked"}
    /\ pc # "create" =>
           /\ source # << >> => Len(ast) = Len(lines(source[1]))
           /\ \A n \in 1..Len(ast) :
                  \E r \in 1..Len(RULE_KINDS) :
                      ast[n].instruction.kind = RULE_KINDS[r]
    /\ pc = "returned" => output \in Seq(Nat)

\* the legacy execute has parsed the rhyming poem itself, run it and
\* returned what it printed
C21_witness ==
    /\ pc = "returned"
    /\ implementation = "legacy"
    /\ source = <<RHYMING_PROGRAM>>
    /\ Len(ast) = Len(lines(RHYMING_PROGRAM))
    /\ output # << >>

\* the last token of a line: its longest piece without a space that ends at
\* the last character that is not a space ("" when there is none)
last_token(line) ==
    LET filled == {j \in 1..Len(line) : At(line, j) # " "}
    IN  IF filled = {} THEN ""
        ELSE LET e == CHOOSE j \in filled : \A k \in filled : k <= j
                 b == CHOOSE j \in 1..e :
                          /\ \A k \in j..e : At(line, k) # " "
                          /\ j = 1 \/ At(line, j - 1) = " "
             IN  SubSeq(line, b, e)

\* the pronunciations of a word the dictionary knows, {} for any other word
pronunciations(word) ==
    UNION {e[3] : e \in {d \in CMUDICT : d[1] = to_lowercase(word)}}

\* C22: a line is ConditionalPush only if the raw line just before it
\* exists, is not blank, and the last tokens of the two lines are both in
\* the pronunciation dictionary and rhyme; so the first line never is, and
\* neither is a line that follows a blank line.
C22_conditional_push_needs_rhyme ==
    pc = "execute" =>
        \A n \in 1..Len(ast) :
            ast[n].instruction.kind = "ConditionalPush" =>
                /\ n > 1
                /\ LET prev == raw_line(source[1], n - 1)
                       cur == raw_line(source[1], n)
                   IN  /\ \E j \in 1..Len(prev) : ~is_whitespace(At(prev, j))
                       /\ pronunciations(last_token(prev)) # {}
                       /\ pronunciations(last_token(cur)) # {}
                       /\ pronunciations(last_token(prev))
                              \cap pronunciations(last_token(cur)) # {}

\* "a" after "a " rhymes with it and is ConditionalPush; the same "a" after
\* a blank line is Store
C22_witness ==
    /\ pc = "execute"
    /\ source = <<"a \na\n\na">>
    /\ [n \in 1..Len(ast) |-> ast[n].instruction.kind]
           = <<"Store", "ConditionalPush", "Noop", "Store">>

-----------------------------------------------------------------------------
(* Further properties of single instructions.                              *)

\* C23: the interpreter never aborts on a Goto or a ConditionalGoto: for
\* every register value v, i64::MIN included, and every program length
\* N > 0 it goes on, and where it jumps it goes on at |v| mod N, an index
\* below N.
C23_goto_never_aborts ==
    [][(Executing("Goto") \/ Executing("ConditionalGoto")) =>
          /\ pc' = "execute"
          /\ instruction_pointer' <= Len(ast)
          /\ Executing("Goto") =>
                 /\ instruction_pointer' = goto_target(get_active(mem, reg))
                 /\ instruction_pointer' < Len(ast)
          /\ (Executing("ConditionalGoto")
                  /\ instruction_pointer' # instruction_pointer + 1) =>
                 /\ instruction_pointer' = goto_target(get_inactive(mem, reg))
                 /\ instruction_pointer' < Len(ast)]_vars

-----------------------------------------------------------------------------
(* Properties of the parser's word tests.                                  *)

\* the positions where a maximal run of the letters a, e, i, o, u, y begins
vowel_run_starts(word) ==
    {b \in 1..Len(word) :
        /\ At(word, b) \in {"a", "e", "i", "o", "u", "y"}
        /\ b = 1 \/ At(word, b - 1) \notin {"a", "e", "i", "o", "u", "y"}}

\* the maximal run that begins at b
vowel_run(word, b) ==
    SubSeq(word, b,
           CHOOSE e \in b..Len(word) :
               /\ \A k \in b..e : At(word, k) \in {"a", "e", "i", "o", "u", "y"}
               /\ e = Len(word) \/ At(word, e + 1) \notin {"a", "e", "i", "o", "u", "y"})

\* one for every run, and one more for a run of two or more letters that is
\* not one of the sixteen diphthongs
heuristic_syllables(word) ==
    Cardinality(vowel_run_starts(word))
    + Cardinality({b \in vowel_run_starts(word) :
                      /\ Len(vowel_run(word, b)) >= 2
                      /\ vowel_run(word, b) \notin
                             {"ai", "au", "ay", "ea", "ee", "ei", "ey", "oa", "oe",
                              "oi", "oo", "ou", "oy", "ua", "ue", "ui"}})

\* C24: for a word the dictionary does not know, the syllable count is the
\* sum over the word's maximal vowel runs of 1 for a listed diphthong and
\* min(2, length) for any other run.  Seen on every line that is one such
\* word and whose instruction carries its count (Store, ConditionalGoto).
C24_approximate_syllables ==
    pc = "execute" =>
        \A n \in 1..Len(ast) :
            LET word == to_lowercase(raw_line(source[1], n))
            IN  (/\ ast[n].instruction.kind \in {"Store", "ConditionalGoto"}
                 /\ \A j \in 1..Len(word) : At(word, j) # " "
                 /\ \A e \in CMUDICT : e[1] # word)
                => ast[n].instruction.syllables = heuristic_syllables(word)

\* the two words of the claim: 15 and 2 syllables
C24_witness ==
    /\ pc = "execute"
    /\ source = <<"supercalifragilisticexpialidocious\nre/cur">>
    /\ ast[1].instruction = Store(15)
    /\ ast[2].instruction = ConditionalGoto(2)

\* the positions where a token of a line begins: a character that is not a
\* space, at the start of the line or after a space
token_starts(line) ==
    {b \in 1..Len(line) :
        At(line, b) # " " /\ (b = 1 \/ At(line, b - 1) = " ")}

\* two tokens next to each other begin with the same character
adjacent_tokens_share_first(line) ==
    \E b, c \in token_starts(line) :
        /\ b < c
        /\ \A d \in token_starts(line) : ~(b < d /\ d < c)
        /\ At(line, b) = At(line, c)

-----------------------------------------------------------------------------
(* Further properties of the parser.                                       *)

\* C26: the source "\n" parses to exactly one instruction, Noop on R0 with
\* empty text; in general a final line terminator adds no instruction after
\* the last line: a source that ends with a newline and has k newline
\* characters yields k instructions, the last one for the text before the
\* final newline.
C26_final_terminator ==
    pc = "execute" =>
        LET s == source[1]
            k == Cardinality(newlines(s))
        IN  /\ s = "\n" => ast = <<Instruction(Noop, Register0, "")>>
            /\ (s # "" /\ At(s, Len(s)) = "\n") =>
                   /\ Len(ast) = k
                   /\ ast[k].line = trim_end(segment(s, k))

\* the single line terminator, parsed
C26_witness ==
    /\ pc = "execute"
    /\ source = <<"\n">>
    /\ Len(ast) = 1
    /\ ast[1].instruction.kind = "Noop"
    /\ ast[1].register = Register0
    /\ ast[1].line = ""

\* C27: in every ConditionalPush that parse produces, prev_syllables is the
\* syllable count of the raw line just before it and cur_syllables the count
\* of its own line, whatever the registers of the two lines are.
C27_conditional_push_counts ==
    pc = "execute" =>
        \A n \in 2..Len(ast) :
            ast[n].instruction.kind = "ConditionalPush" =>
                /\ ast[n].instruction.prev_syllables
                       = count_syllables(raw_line(source[1], n - 1))
                /\ ast[n].instruction.cur_syllables
                       = count_syllables(raw_line(source[1], n))

\* 'he thrust every elf' on R0 and '    far back on the shelf' on R1:
\* prev = 6, cur = 5
C27_witness ==
    /\ pc = "execute"
    /\ source = <<"he thrust every elf\n    far back on the shelf">>
    /\ ast[1].register = Register0
    /\ ast[2].register = Register1
    /\ ast[2].instruction = ConditionalPush(6, 5)

-----------------------------------------------------------------------------
(* Further properties of the JIT.                                          *)

\* C28: in compiled code a Pop on the empty stack (top <= start) is skipped
\* without a trap and leaves the stack and both registers as they are; any
\* other Pop takes one slot off the top and loads its value into the
\* register of the instruction.  Either way the code goes on with the next
\* block.
C28_jit_pop ==
    [][Translated("Pop") =>
          /\ pc' \in {"jit", "returned"}
          /\ instruction_pointer' = instruction_pointer + 1
          /\ output' = output
          /\ IF Len(mem.stack) = 0
             THEN /\ mem'.stack = << >>
                  /\ mem'.register0 = mem.register0
                  /\ mem'.register1 = mem.register1
             ELSE /\ Len(mem'.stack) = Len(mem.stack) - 1
                  /\ \A i \in 1..Len(mem'.stack) : mem'.stack[i] = mem.stack[i]
                  /\ get_active(mem', reg) = mem.stack[Len(mem.stack)]
                  /\ get_inactive(mem', reg) = get_inactive(mem, reg)]_vars

\* Pop@R0 and, after PrintValue@R0, Pop@R1 were both skipped on the empty
\* stack: r0 = 2 and r1 = -1 are still there
C28_witness ==
    /\ implementation = "jit"
    /\ pc = "returned"
    /\ ast = load(Register0, 2) \o load(Register1, -1)
               \o <<literal(Pop, Register0)>> \o EPILOGUE
    /\ mem = [register0 |-> as_i64(2),
              register1 |-> wrapping_neg(as_i64(1)),
              stack |-> << >>]
    /\ output = <<50>>

-----------------------------------------------------------------------------
(* Properties of the interpreter's stack and control flow.                 *)

\* C29: the interpreter's stack is a LIFO.  Push puts the value of the
\* instruction's register on top and changes no entry below it and no
\* register; Pop gives the value pushed last and not yet popped, which is
\* the top entry; and a Pop on the register that has just been pushed (the
\* top entry is that register's value) restores registers and stack as they
\* were before the Push.
C29_stack_is_lifo ==
    [][/\ Executing("Push") =>
             /\ Len(mem'.stack) = Len(mem.stack) + 1
             /\ \A i \in 1..Len(mem.stack) : mem'.stack[i] = mem.stack[i]
             /\ mem'.stack[Len(mem'.stack)] = get_active(mem, reg)
             /\ mem'.register0 = mem.register0
             /\ mem'.register1 = mem.register1
             /\ pop(mem', reg) = mem
       /\ (Executing("Pop") /\ mem.stack # << >>) =>
             /\ get_active(mem', reg) = mem.stack[Len(mem.stack)]
             /\ mem'.stack = SubSeq(mem.stack, 1, Len(mem.stack) - 1)
             /\ mem.stack[Len(mem.stack)] = get_active(mem, reg) =>
                    /\ mem'.register0 = mem.register0
                    /\ mem'.register1 = mem.register1]_vars

\* Push@R1 put -1 on top of the 2 and Pop@R1 took it off again: registers
\* and stack are as they were before the Push@R1
C29_witness ==
    /\ implementation \in {"plus", "legacy"}
    /\ pc = "returned"
    /\ ast = load(Register0, 2) \o load(Register1, -1)
               \o <<literal(Push, Register0), literal(Push, Register1),
                    literal(Pop, Register1)>>
    /\ mem = [register0 |-> as_i64(2),
              register1 |-> wrapping_neg(as_i64(1)),
              stack |-> <<as_i64(2)>>]

\* what one turn of the loop does to the control flow, as a function of the
\* instruction pointer, the program and the two registers alone: the next
\* instruction pointer, or "panicked" where the turn aborts
control(ip, program, r0, r1) ==
    LET i == program[ip + 1]
        A == IF i.register = Register0 THEN r0 ELSE r1
        I == IF i.register = Register0 THEN r1 ELSE r0
        kind == i.instruction.kind
        jump(v) == IF overflow_checks /\ v = I64_MIN THEN <<"panicked", ip>>
                   ELSE <<"execute", as_usize_rem(wrapping_abs(v), Len(program))>>
    IN  CASE kind = "Goto" -> jump(A)
          [] kind = "ConditionalGoto" ->
                 IF gt(A, as_i64(i.instruction.syllables)) THEN jump(I)
                 ELSE <<"execute", ip + 1>>
          [] kind = "Negate" ->
                 IF overflow_checks /\ neg_overflows(A) THEN <<"panicked", ip>> ELSE <<"execute", ip + 1>>
          [] kind = "Multiply" ->
                 IF overflow_checks /\ mul_overflows(A, I) THEN <<"panicked", ip>> ELSE <<"execute", ip + 1>>
          [] kind = "Add" ->
                 IF overflow_checks /\ add_overflows(A, I) THEN <<"panicked", ip>> ELSE <<"execute", ip + 1>>
          [] kind = "PrintChar" ->
                 IF overflow_checks /\ A = I64_MIN THEN <<"panicked", ip>> ELSE <<"execute", ip + 1>>
          [] OTHER -> <<"execute", ip + 1>>

\* C30: in one step of the interpreter the next instruction pointer is a
\* function of the instruction pointer, the program and the two registers
\* only, so that two states that agree on these and differ in the stack
\* step to the same instruction pointer (or both abort).
C30_control_ignores_stack ==
    [][Fetched =>
          LET to == control(instruction_pointer, ast, mem.register0, mem.register1)
          IN  /\ pc' = to[1]
              /\ instruction_pointer' = to[2]]_vars

\* the loop Store(0)@R0, Store(1)@R1, Push@R0, Push@R1, Goto@R0 is at index 0
\* for the third time: its Goto went to index 0 with two values on the
\* stack and again with four
C30_witness ==
    /\ pc = "execute"
    /\ ast = load(Register0, 0) \o load(Register1, 1)
               \o <<literal(Push, Register0), literal(Push, Register1),
                    literal(Goto, Register0)>>
    /\ instruction_pointer = 0
    /\ Len(mem.stack) = 4

-----------------------------------------------------------------------------
(* Properties of the two interpreters, side by side.                       *)

\* C31: in the legacy interpreter ConditionalPush compares R0 with R1
\* whatever the register of the instruction is: it pushes prev_syllables
\* exactly when r0 < r1 and cur_syllables otherwise.
C31_legacy_conditional_push ==
    [][(Executing("ConditionalPush") /\ implementation = "legacy") =>
          mem'.stack =
              Append(mem.stack,
                     as_i64(IF lt(mem.register0, mem.register1)
                            THEN ins.instruction.prev_syllables
                            ELSE ins.instruction.cur_syllables))]_vars

\* C33: the two interpreters are observationally equivalent: on the same
\* instruction list they go through the same (ip, r0, r1, stack) states and
\* return the same output.  Every turn of either interpreter's loop leaves
\* the state that a turn of Program::execute leaves from the same state.
C33_interpreters_agree ==
    [][Fetched =>
          /\ pc' = interpreted.pc
          /\ instruction_pointer' = interpreted.instruction_pointer
          /\ mem' = interpreted.mem
          /\ output' = interpreted.output]_vars

-----------------------------------------------------------------------------
(* Termination.                                                            *)

\* C32: termination is not guaranteed.  The one-line program 'sells sea
\* shells' is a single Goto@R0; with r0 = 0 and N = 1 it is at index 0 with
\* the Goto to index 0 before it for ever, and neither halts nor returns
\* output.
C32_goto_loops_forever ==
    /\ [](source = <<GOTO_PROGRAM>> =>
             /\ pc \in {"create", "execute"}
             /\ output = << >>)
    /\ (source = <<GOTO_PROGRAM>>) ~>
           [](/\ pc = "execute"
              /\ ast = <<Instruction(Goto, Register0, GOTO_PROGRAM)>>
              /\ instruction_pointer = 0
              /\ mem.register0 = I64_ZERO
              /\ ENABLED ExecGoto)

\* the program is parsed and at its Goto
C32_witness ==
    /\ source = <<GOTO_PROGRAM>>
    /\ pc = "execute"
    /\ Len(ast) = 1
    /\ ast[1].instruction.kind = "Goto"
    /\ instruction_pointer = goto_target(mem.register0)
    /\ ENABLED ExecGoto

\* the program has neither a Goto nor a ConditionalGoto
straight_line ==
    \A n \in 1..Len(ast) :
        ast[n].instruction.kind \notin {"Goto", "ConditionalGoto"}

\* C34: a program without Goto and ConditionalGoto always halts, after
\* executing each of its N instructions exactly once in source order: every
\* turn of the loop goes from ip to ip + 1, and at ip = N the loop ends and
\* the output is returned.
C34_straight_line_halts ==
    [][(straight_line /\ pc = "execute") =>
          IF instruction_pointer < Len(ast)
          THEN pc' = "execute" /\ instruction_pointer' = instruction_pointer + 1
          ELSE pc' = "returned" /\ instruction_pointer = Len(ast)]_vars

-----------------------------------------------------------------------------
(* What an instruction leaves alone.                                       *)

\* C35: no instruction changes the register that is inactive for it.
\* Store, Negate, Multiply, Add and Pop change at most their own register
\* and the other seven kinds change neither register; only PrintValue and
\* PrintChar change the output; only Push, Pop and ConditionalPush change
\* the stack.
C35_frame ==
    [][Fetched =>
          LET kind == ins.instruction.kind
          IN  /\ get_inactive(mem', reg) = get_inactive(mem, reg)
              /\ kind \notin {"Store", "Negate", "Multiply", "Add", "Pop"} =>
                     get_active(mem', reg) = get_active(mem, reg)
              /\ kind \notin {"PrintValue", "PrintChar"} => output' = output
              /\ kind \notin {"Push", "Pop", "ConditionalPush"} =>
                     mem'.stack = mem.stack]_vars

\* Negate@R1 after r0 = 3 and r1 = 1: r1 is -1 and r0 is still 3
C35_witness ==
    /\ pc \in {"execute", "returned"}
    /\ instruction_pointer = 3
    /\ ast = load(Register0, 3) \o load(Register1, 1)
               \o <<literal(Negate, Register1)>>
    /\ mem = [register0 |-> as_i64(3),
              register1 |-> wrapping_neg(as_i64(1)),
              stack |-> << >>]
    /\ output = << >>

-----------------------------------------------------------------------------
(* Programs without Negate.                                                *)

no_negate == \A n \in 1..Len(ast) : ast[n].instruction.kind # "Negate"

\* both registers and every value on the stack are at least 0
non_negative(m) ==
    /\ ~is_negative(m.register0)
    /\ ~is_negative(m.register1)
    /\ \A i \in 1..Len(m.stack) : ~is_negative(m.stack[i])

\* C36: in a program without Negate, as long as no arithmetic overflow
\* occurs, r0, r1 and every value on the stack are at least 0 in every
\* reachable state: they are so at the start and every turn of the loop
\* whose Multiply or Add does not overflow keeps them so.  Hence a jump goes
\* to A mod N with A itself, and PrintValue prints digits only.
C36_no_negate_no_negative ==
    /\ [](pc = "create" => non_negative(mem))
    /\ [][(/\ Fetched
           /\ no_negate
           /\ non_negative(mem)
           /\ ~(ins.instruction.kind = "Multiply"
                   /\ mul_overflows(get_active(mem, reg), get_inactive(mem, reg)))
           /\ ~(ins.instruction.kind = "Add"
                   /\ add_overflows(get_active(mem, reg), get_inactive(mem, reg))))
          => /\ non_negative(mem')
             /\ pc' = "execute"
             /\ ins.instruction.kind = "Goto" =>
                    instruction_pointer'
                        = as_usize_rem(get_active(mem, reg), Len(ast))
             /\ (ins.instruction.kind = "ConditionalGoto"
                     /\ instruction_pointer' # instruction_pointer + 1) =>
                    instruction_pointer'
                        = as_usize_rem(get_inactive(mem, reg), Len(ast))
             /\ \A c \in 1..Len(output') :
                    c > Len(output) /\ ins.instruction.kind = "PrintValue" =>
                        output'[c] \in 48..57]_vars

\* r0 = 3 and r1 = 1 were pushed, Multiply@R0 gave 3, PrintValue@R0 printed
\* "3" and Pop@R1 took the 1 back
C36_witness ==
    /\ pc = "returned"
    /\ ast = load(Register0, 3) \o load(Register1, 1)
               \o <<literal(Push, Register0), literal(Push, Register1),
                    literal(Multiply, Register0)>> \o EPILOGUE
    /\ no_negate
    /\ mem = [register0 |-> as_i64(3), register1 |-> as_i64(1),
              stack |-> <<as_i64(3)>>]
    /\ output = <<51>>

=============================================================================
